---- MODULE Spec2Model ----
(***************************************************************************)
(* Model of the expression pipeline of calc.go:                            *)
(*   evaluateExpression = tokenize ; infixToPostfix ; evaluatePostfix,     *)
(* with evaluateFunction re-entering evaluateExpression on the argument    *)
(* substring of a function-call token.                                     *)
(*                                                                         *)
(* A Go string is modelled as a sequence of one-character strings, a       *)
(* []string as a sequence of such sequences.  Indices are 1-based here     *)
(* (Go index x is model index x+1).  A float64 is modelled as an exact     *)
(* rational where the Go result is one; every other float (an irrational   *)
(* function value, NaN, an infinity, a magnitude beyond ExactLimit) is a   *)
(* symbolic value that carries the term that produced it.                  *)
(***************************************************************************)
EXTENDS Integers, Sequences, FiniteSets, TLC

VARIABLES expr, frames, result, err, pc

vars == <<expr, frames, result, err, pc>>

----------------------------------------------------------------------------
(* Constants of calc.go, lines 14-35.                                      *)

addOperator == "+"
subtractOperator == "-"
multiplyOperator == "*"
divideOperator == "/"
powerOperator == "^"
leftParen == "("
rightParen == ")"

operators == {addOperator, subtractOperator, multiplyOperator, divideOperator, powerOperator}

\* A Go map yields the zero value for a missing key.
precedence(token) ==
  IF token \in {<<addOperator>>, <<subtractOperator>>} THEN 1
  ELSE IF token \in {<<multiplyOperator>>, <<divideOperator>>} THEN 2
  ELSE IF token = <<powerOperator>> THEN 3
  ELSE 0

\* Variant: "^" grouped from the left like the other operators.
associativityAllLeft(token) ==
  IF token \in {<<addOperator>>, <<subtractOperator>>, <<multiplyOperator>>,
                <<divideOperator>>, <<powerOperator>>} THEN "L"
  ELSE ""

associativity(token) ==
  IF token \in {<<addOperator>>, <<subtractOperator>>, <<multiplyOperator>>, <<divideOperator>>} THEN "L"
  ELSE IF token = <<powerOperator>> THEN "R"
  ELSE ""

errInvalidOperator == "InvalidOperator"
errDivideByZero == "DivisionByZero"
errInsufficientValues == "InsufficientOperands"
errMismatchedParens == "MismatchedParentheses"
\* The errors built in place with fmt.Errorf.
errUnmatchedFunctionParens == "UnmatchedFunctionParens"
errInvalidCharacter == "InvalidCharacter"
errInvalidToken == "InvalidToken"
errInvalidNumber == "InvalidNumber"
errMalformedExpression == "MalformedExpression"
errInvalidFunctionFormat == "InvalidFunctionFormat"
errInvalidFunctionArgument == "InvalidFunctionArgument"
errUnsupportedFunction == "UnsupportedFunction"
\* A Go run-time panic (index out of range); no line of calc.go returns it.
Panic == "Panic"

----------------------------------------------------------------------------
(* Strings.                                                                *)

DigitChars == <<"0", "1", "2", "3", "4", "5", "6", "7", "8", "9">>

IsDigit(char) == \E n \in 1..10 : DigitChars[n] = char

DigitValue(char) == (CHOOSE n \in 1..10 : DigitChars[n] = char) - 1

HasPrefix(s, prefix) ==
  Len(s) >= Len(prefix) /\ SubSeq(s, 1, Len(prefix)) = prefix

\* strings.ReplaceAll(input, " ", "")
RECURSIVE RemoveSpaces(_)
RemoveSpaces(s) ==
  IF s = <<>> THEN <<>>
  ELSE IF Head(s) = " " THEN RemoveSpaces(Tail(s))
  ELSE <<Head(s)>> \o RemoveSpaces(Tail(s))

\* strings.TrimSuffix(s, ")")
TrimSuffix(s) ==
  IF Len(s) > 0 /\ s[Len(s)] = rightParen THEN SubSeq(s, 1, Len(s) - 1) ELSE s

\* Position of the first "(" of s, 0 if there is none (strings.SplitN(s, "(", 2)).
FirstParen(s) ==
  IF \E p \in 1..Len(s) : s[p] = leftParen
  THEN CHOOSE p \in 1..Len(s) : s[p] = leftParen /\ \A q \in 1..(p - 1) : s[q] # leftParen
  ELSE 0

sinName == <<"s", "i", "n">>
cosName == <<"c", "o", "s">>
tanName == <<"t", "a", "n">>
sqrtName == <<"s", "q", "r", "t">>

FunctionNames == {sinName, cosName, tanName, sqrtName}

----------------------------------------------------------------------------
(* Numbers.                                                                *)

\* Magnitudes above this are kept symbolic rather than computed.
ExactLimit == 10000

Abs(n) == IF n < 0 THEN -n ELSE n

RECURSIVE GCD(_, _)
GCD(a, b) == IF b = 0 THEN a ELSE GCD(b, a % b)

Rat(n, d) ==
  LET g == GCD(Abs(n), Abs(d))
      s == IF d < 0 THEN -1 ELSE 1
  IN  [k |-> "rat", n |-> (s * n) \div g, d |-> (s * d) \div g, t |-> <<>>]

Sym(t) == [k |-> "sym", n |-> 0, d |-> 1, t |-> t]

Zero == Rat(0, 1)
One == Rat(1, 1)

IsRat(v) == v.k = "rat"

\* The Go comparison v == 0.
IsZero(v) == IsRat(v) /\ v.n = 0

Term(v) == IF IsRat(v) THEN <<ToString(v.n), "/", ToString(v.d)>> ELSE v.t

BinSym(op, a, b) == Sym(<<"(">> \o Term(a) \o <<op>> \o Term(b) \o <<")">>)

CallSym(name, a) == Sym(name \o <<"(">> \o Term(a) \o <<")">>)

add(a, b) ==
  IF IsRat(a) /\ IsRat(b) THEN Rat(a.n * b.d + b.n * a.d, a.d * b.d)
  ELSE BinSym("+", a, b)

subtract(a, b) ==
  IF IsRat(a) /\ IsRat(b) THEN Rat(a.n * b.d - b.n * a.d, a.d * b.d)
  ELSE BinSym("-", a, b)

multiply(a, b) ==
  IF IsRat(a) /\ IsRat(b) THEN Rat(a.n * b.n, a.d * b.d)
  ELSE BinSym("*", a, b)

\* The quotient a / b of line 304 (b is not zero there).
Quotient(a, b) ==
  IF IsRat(a) /\ IsRat(b) THEN Rat(a.n * b.d, a.d * b.n)
  ELSE BinSym("/", a, b)

\* Variant: no test of the divisor; the float quotient by zero is an infinity or NaN.
divideUnchecked(a, b) ==
  IF IsZero(b) THEN [val |-> BinSym("/", a, b), err |-> ""]
  ELSE [val |-> Quotient(a, b), err |-> ""]

\* divide returns (0, errDivideByZero) when b == 0, else (a / b, nil).
divide(a, b) ==
  IF IsZero(b) THEN [val |-> Zero, err |-> errDivideByZero]
  ELSE [val |-> Quotient(a, b), err |-> ""]

\* n^e for e >= 0 by repeated multiplication; -1 once the magnitude passes ExactLimit.
RECURSIVE PowAcc(_, _, _)
PowAcc(n, e, acc) ==
  IF e = 0 THEN acc
  ELSE IF acc * n > ExactLimit THEN -1
  ELSE PowAcc(n, e - 1, acc * n)

PowNat(n, e) ==
  IF e = 0 THEN 1
  ELSE IF n = 0 THEN 0
  ELSE IF n = 1 THEN 1
  ELSE PowAcc(n, e, 1)

\* math.Pow(a, b)
power(a, b) ==
  IF IsZero(b) THEN One
  ELSE IF a = One THEN One
  ELSE IF IsRat(a) /\ IsRat(b) /\ b.d = 1 /\ ~(a.n = 0 /\ b.n < 0) THEN
    LET e == Abs(b.n)
        sign == IF a.n < 0 /\ e % 2 = 1 THEN -1 ELSE 1
        pn == PowNat(Abs(a.n), e)
        pd == PowNat(a.d, e)
    IN  IF pn < 0 \/ pd < 0 THEN BinSym("^", a, b)
        ELSE IF b.n > 0 THEN Rat(sign * pn, pd)
        ELSE Rat(sign * pd, pn)
  ELSE BinSym("^", a, b)

IsSquare(n) == n <= ExactLimit /\ \E r \in 0..n : r * r = n

Root(n) == CHOOSE r \in 0..n : r * r = n

\* math.Sin, math.Cos, math.Tan, math.Sqrt
Sin(x) == IF IsZero(x) THEN Zero ELSE CallSym(sinName, x)

Cos(x) == IF IsZero(x) THEN One ELSE CallSym(cosName, x)

Tan(x) == IF IsZero(x) THEN Zero ELSE CallSym(tanName, x)

Sqrt(x) ==
  IF IsRat(x) /\ x.n >= 0 /\ IsSquare(x.n) /\ IsSquare(x.d) THEN Rat(Root(x.n), Root(x.d))
  ELSE CallSym(sqrtName, x)

\* strconv.ParseFloat on a token: a token of digits and '.' parses iff it has
\* a digit and at most one '.'; no other token the tokenizer emits parses.
DotCount(token) == Cardinality({p \in 1..Len(token) : token[p] = "."})

DigitCount(token) == Cardinality({p \in 1..Len(token) : IsDigit(token[p])})

ParseOk(token) ==
  /\ Len(token) > 0
  /\ \A p \in 1..Len(token) : IsDigit(token[p]) \/ token[p] = "."
  /\ DigitCount(token) >= 1
  /\ DotCount(token) <= 1

RECURSIVE DigitsValue(_, _)
DigitsValue(s, acc) ==
  IF s = <<>> THEN acc
  ELSE IF Head(s) = "." THEN DigitsValue(Tail(s), acc)
  ELSE DigitsValue(Tail(s), 10 * acc + DigitValue(Head(s)))

RECURSIVE Pow10(_)
Pow10(e) == IF e = 0 THEN 1 ELSE 10 * Pow10(e - 1)

FractionDigits(token) ==
  IF DotCount(token) = 0 THEN 0
  ELSE Len(token) - (CHOOSE p \in 1..Len(token) : token[p] = ".")

ParseFloat(token) == Rat(DigitsValue(token, 0), Pow10(FractionDigits(token)))

----------------------------------------------------------------------------
(* Token classes, lines 141-143 and 247-258.                               *)

isOperatorOrParen(token) ==
  token \in {<<addOperator>>, <<subtractOperator>>, <<multiplyOperator>>,
             <<divideOperator>>, <<powerOperator>>, <<leftParen>>, <<rightParen>>}

isNumber(token) == ParseOk(token)

isOperator(token) ==
  isOperatorOrParen(token) /\ token # <<leftParen>> /\ token # <<rightParen>>

isFunction(token) == \E name \in FunctionNames : HasPrefix(token, name \o <<leftParen>>)

----------------------------------------------------------------------------
(* One activation of evaluateExpression: its input and the locals of the   *)
(* three stages it runs.  ret is what the activation has returned, if it   *)
(* has.                                                                    *)

NoReturn == [kind |-> "none", val |-> Zero, err |-> ""]

NewFrame(input) ==
  [input |-> RemoveSpaces(input), phase |-> "tokenize", i |-> 1, number |-> <<>>,
   tokens |-> <<>>, k |-> 1, postfix |-> <<>>, stack |-> <<>>, vstack |-> <<>>,
   ret |-> NoReturn]

Fail(f, e) == [f EXCEPT !.ret = [kind |-> "err", val |-> Zero, err |-> e]]

Return(f, v) == [f EXCEPT !.ret = [kind |-> "ok", val |-> v, err |-> ""]]

----------------------------------------------------------------------------
(* tokenize, lines 94-139.                                                 *)

\* functionRegex.FindString(input[i:]): the length of the match, 0 for none.
FunctionMatch(input, i) ==
  IF \E name \in FunctionNames : HasPrefix(SubSeq(input, i, Len(input)), name \o <<leftParen>>)
  THEN Len(CHOOSE name \in FunctionNames :
             HasPrefix(SubSeq(input, i, Len(input)), name \o <<leftParen>>)) + 1
  ELSE 0

\* Variant: the scan does not count the parentheses opened inside the call.
RECURSIVE ScanFirstClose(_, _, _)
ScanFirstClose(input, j, count) ==
  IF count > 0 /\ j <= Len(input)
  THEN ScanFirstClose(input, j + 1, IF input[j] = rightParen THEN count - 1 ELSE count)
  ELSE <<j, count>>

\* The loop of lines 115-122: <<j, count>> when it ends.
RECURSIVE ScanParens(_, _, _)
ScanParens(input, j, count) ==
  IF count > 0 /\ j <= Len(input)
  THEN ScanParens(input, j + 1,
                  IF input[j] = leftParen THEN count + 1
                  ELSE IF input[j] = rightParen THEN count - 1
                  ELSE count)
  ELSE <<j, count>>

\* Lines 105-108.
FlushNumber(f) ==
  IF Len(f.number) > 0
  THEN [f EXCEPT !.tokens = Append(@, f.number), !.number = <<>>]
  ELSE f

\* One iteration of the loop of line 99 (i < len(input) holds).
tokenizeChar(f) ==
  LET char == f.input[f.i] IN
  IF IsDigit(char) \/ char = "."
  THEN [f EXCEPT !.number = Append(@, char), !.i = @ + 1]
  ELSE
    LET g == FlushNumber(f) IN
    IF isOperatorOrParen(<<char>>)
    THEN [g EXCEPT !.tokens = Append(@, <<char>>), !.i = @ + 1]
    ELSE IF FunctionMatch(f.input, f.i) # 0
    THEN
      LET scan == ScanParens(f.input, f.i + FunctionMatch(f.input, f.i), 1)
          j == scan[1]
          count == scan[2]
      IN  IF count = 0
          THEN [g EXCEPT !.tokens = Append(@, SubSeq(f.input, f.i, j - 1)), !.i = j]
          ELSE Fail(g, errUnmatchedFunctionParens)
    ELSE Fail(g, errInvalidCharacter)

\* Lines 134-138, and the hand-over to infixToPostfix of lines 81-86.
tokenizeEnd(f) == [FlushNumber(f) EXCEPT !.phase = "convert", !.k = 1]

----------------------------------------------------------------------------
(* infixToPostfix, lines 145-188.                                          *)

Top(stack) == stack[Len(stack)]

Pop(stack) == SubSeq(stack, 1, Len(stack) - 1)

\* Variant: an operator of equal precedence is never popped.
PopsOperatorStrict(stack, token) ==
  /\ Len(stack) > 0
  /\ Top(stack) # <<leftParen>>
  /\ precedence(Top(stack)) > precedence(token)

\* The loop condition of line 155.
PopsOperator(stack, token) ==
  /\ Len(stack) > 0
  /\ Top(stack) # <<leftParen>>
  /\ \/ associativity(token) = "L" /\ precedence(Top(stack)) >= precedence(token)
     \/ associativity(token) = "R" /\ precedence(Top(stack)) > precedence(token)

\* The loop of lines 155-158.
RECURSIVE PopOperators(_, _)
PopOperators(f, token) ==
  IF PopsOperator(f.stack, token)
  THEN PopOperators([f EXCEPT !.postfix = Append(@, Top(f.stack)), !.stack = Pop(@)], token)
  ELSE f

\* The loop of lines 163-166.
RECURSIVE PopToLeftParen(_)
PopToLeftParen(f) ==
  IF Len(f.stack) > 0 /\ Top(f.stack) # <<leftParen>>
  THEN PopToLeftParen([f EXCEPT !.postfix = Append(@, Top(f.stack)), !.stack = Pop(@)])
  ELSE f

\* Lines 170-174: drop the left parenthesis, then move a function token on
\* top of the stack to the output.  stack[:len(stack)-1] panics on an empty stack.
DropLeftParen(f) ==
  IF Len(f.stack) = 0 THEN Fail(f, Panic)
  ELSE
    LET g == [f EXCEPT !.stack = Pop(@)] IN
    IF Len(g.stack) > 0 /\ isFunction(Top(g.stack))
    THEN [g EXCEPT !.postfix = Append(@, Top(g.stack)), !.stack = Pop(@)]
    ELSE g

\* Lines 163-174.
closeParen(f) ==
  LET g == PopToLeftParen(f) IN
  IF Len(g.stack) = 0 THEN Fail(g, errMismatchedParens)
  ELSE DropLeftParen(g)

\* One iteration of the loop of line 149, on tokens[k].
convertToken(f) ==
  LET token == f.tokens[f.k]
      g == [f EXCEPT !.k = @ + 1]
  IN  IF isNumber(token) THEN [g EXCEPT !.postfix = Append(@, token)]
      ELSE IF isFunction(token) THEN [g EXCEPT !.stack = Append(@, token)]
      ELSE IF isOperator(token)
      THEN [PopOperators(g, token) EXCEPT !.stack = Append(@, token)]
      ELSE IF token = <<leftParen>> THEN [g EXCEPT !.stack = Append(@, token)]
      ELSE IF token = <<rightParen>> THEN closeParen(g)
      ELSE Fail(g, errInvalidToken)

\* Variant: the final loop moves a left parenthesis to the output like any token.
RECURSIVE DrainUnchecked(_)
DrainUnchecked(f) ==
  IF Len(f.stack) > 0
  THEN DrainUnchecked([f EXCEPT !.postfix = Append(@, Top(f.stack)), !.stack = Pop(@)])
  ELSE f

\* The loop of lines 179-185.
RECURSIVE Drain(_)
Drain(f) ==
  IF Len(f.stack) > 0
  THEN IF Top(f.stack) = <<leftParen>> THEN Fail(f, errMismatchedParens)
       ELSE Drain([f EXCEPT !.postfix = Append(@, Top(f.stack)), !.stack = Pop(@)])
  ELSE f

\* Lines 179-187, and the hand-over to evaluatePostfix of lines 86-91.
convertEnd(f) ==
  LET g == Drain(f) IN
  IF g.ret.kind = "err" THEN g ELSE [g EXCEPT !.phase = "evaluate", !.k = 1]

----------------------------------------------------------------------------
(* evaluatePostfix, lines 190-245, and evaluateFunction, lines 260-286.    *)

\* Lines 210-235: pop b, pop a, apply.  Indexing stack[len(stack)-1] panics
\* on an empty stack.
applyOperator(f, token) ==
  IF Len(f.vstack) < 2 THEN Fail(f, Panic)
  ELSE
    LET b == f.vstack[Len(f.vstack)]
        a == f.vstack[Len(f.vstack) - 1]
        rest == SubSeq(f.vstack, 1, Len(f.vstack) - 2)
        g == [f EXCEPT !.k = @ + 1]
    IN  IF token = <<addOperator>> THEN [g EXCEPT !.vstack = Append(rest, add(a, b))]
        ELSE IF token = <<subtractOperator>> THEN [g EXCEPT !.vstack = Append(rest, subtract(a, b))]
        ELSE IF token = <<multiplyOperator>> THEN [g EXCEPT !.vstack = Append(rest, multiply(a, b))]
        ELSE IF token = <<divideOperator>>
        THEN IF divide(a, b).err # "" THEN Fail(f, divide(a, b).err)
             ELSE [g EXCEPT !.vstack = Append(rest, divide(a, b).val)]
        ELSE IF token = <<powerOperator>> THEN [g EXCEPT !.vstack = Append(rest, power(a, b))]
        ELSE Fail(f, errInvalidOperator)

\* Variant: the operands are popped without the test of line 207.
evalOperatorUnchecked(f, token) == applyOperator(f, token)

\* Lines 206-235.
evalOperator(f, token) ==
  IF Len(f.vstack) < 2 THEN Fail(f, errInsufficientValues)
  ELSE applyOperator(f, token)

\* One iteration of the loop of line 193 on a token that is no function call.
evalToken(f) ==
  LET token == f.postfix[f.k] IN
  IF isNumber(token)
  THEN [f EXCEPT !.vstack = Append(@, ParseFloat(token)), !.k = @ + 1]
  ELSE IF isOperator(token) THEN evalOperator(f, token)
  ELSE Fail(f, errInvalidToken)

\* Variant: any non-empty stack is accepted at the end.
evalEndNonEmpty(f) ==
  IF Len(f.vstack) = 0 THEN Fail(f, errMalformedExpression)
  ELSE Return(f, f.vstack[1])

\* Lines 240-244.
evalEnd(f) ==
  IF Len(f.vstack) # 1 THEN Fail(f, errMalformedExpression)
  ELSE Return(f, f.vstack[1])

\* Lines 261-266: funcName and argStr of a function token.
funcName(token) == SubSeq(token, 1, FirstParen(token) - 1)

argStr(token) == TrimSuffix(SubSeq(token, FirstParen(token) + 1, Len(token)))

\* Lines 274-285.
applyFunction(name, arg) ==
  IF name = sinName THEN [val |-> Sin(arg), err |-> ""]
  ELSE IF name = cosName THEN [val |-> Cos(arg), err |-> ""]
  ELSE IF name = tanName THEN [val |-> Tan(arg), err |-> ""]
  ELSE IF name = sqrtName THEN [val |-> Sqrt(arg), err |-> ""]
  ELSE [val |-> Zero, err |-> errUnsupportedFunction]

\* Variant: the argument's error is passed on as it is.
argumentErrorKept(e) == e

\* Lines 270-272: the error evaluateFunction returns when its argument fails.
argumentError(e) == errInvalidFunctionArgument

\* Lines 269-285 and 201-205: the caller f takes what the activation for the
\* argument of postfix[k] returned.
functionReturn(f, ret) ==
  IF ret.kind = "err" THEN Fail(f, argumentError(ret.err))
  ELSE
    LET r == applyFunction(funcName(f.postfix[f.k]), ret.val) IN
    IF r.err # "" THEN Fail(f, r.err)
    ELSE [f EXCEPT !.vstack = Append(@, r.val), !.k = @ + 1]

----------------------------------------------------------------------------
(* The state machine.  frames is the call stack of evaluateExpression      *)
(* activations (the last element runs); expr is the string Run passed in   *)
(* at line 68; result and err are what that call returned once pc is       *)
(* "done".                                                                 *)

top == frames[Len(frames)]

Running == pc = "run" /\ Len(frames) > 0 /\ top.ret.kind = "none"

SetTop(f) == frames' = [frames EXCEPT ![Len(frames)] = f]

tokenize ==
  /\ Running /\ top.phase = "tokenize" /\ top.i <= Len(top.input)
  /\ SetTop(tokenizeChar(top))
  /\ UNCHANGED <<expr, result, err, pc>>

tokenizeReturn ==
  /\ Running /\ top.phase = "tokenize" /\ top.i > Len(top.input)
  /\ SetTop(tokenizeEnd(top))
  /\ UNCHANGED <<expr, result, err, pc>>

infixToPostfix ==
  /\ Running /\ top.phase = "convert" /\ top.k <= Len(top.tokens)
  /\ SetTop(convertToken(top))
  /\ UNCHANGED <<expr, result, err, pc>>

infixToPostfixReturn ==
  /\ Running /\ top.phase = "convert" /\ top.k > Len(top.tokens)
  /\ SetTop(convertEnd(top))
  /\ UNCHANGED <<expr, result, err, pc>>

CallsFunction(f) ==
  /\ f.phase = "evaluate" /\ f.k <= Len(f.postfix)
  /\ ~isNumber(f.postfix[f.k]) /\ isFunction(f.postfix[f.k])

evaluatePostfix ==
  /\ Running /\ top.phase = "evaluate" /\ top.k <= Len(top.postfix)
  /\ ~CallsFunction(top)
  /\ SetTop(evalToken(top))
  /\ UNCHANGED <<expr, result, err, pc>>

\* Lines 201 and 261-269: the call of evaluateExpression(argStr).
callArgument(f) ==
  IF FirstParen(f.postfix[f.k]) = 0
  THEN <<Fail(f, errInvalidFunctionFormat)>>
  ELSE <<f, NewFrame(argStr(f.postfix[f.k]))>>

evaluateFunction ==
  /\ Running /\ CallsFunction(top)
  /\ frames' = SubSeq(frames, 1, Len(frames) - 1) \o callArgument(top)
  /\ UNCHANGED <<expr, result, err, pc>>

evaluateFunctionReturn ==
  /\ pc = "run" /\ Len(frames) >= 2 /\ top.ret.kind # "none"
  /\ frames' = [SubSeq(frames, 1, Len(frames) - 1)
                  EXCEPT ![Len(frames) - 1] = functionReturn(@, top.ret)]
  /\ UNCHANGED <<expr, result, err, pc>>

evaluatePostfixReturn ==
  /\ Running /\ top.phase = "evaluate" /\ top.k > Len(top.postfix)
  /\ SetTop(evalEnd(top))
  /\ UNCHANGED <<expr, result, err, pc>>

\* Lines 68 and 83-91: the outermost activation returns to its caller.
evaluateExpressionReturn ==
  /\ pc = "run" /\ Len(frames) = 1 /\ top.ret.kind # "none"
  /\ result' = top.ret.val
  /\ err' = top.ret.err
  /\ pc' = "done"
  /\ frames' = <<>>
  /\ UNCHANGED expr

Next ==
  \/ tokenize
  \/ tokenizeReturn
  \/ infixToPostfix
  \/ infixToPostfixReturn
  \/ evaluatePostfix
  \/ evaluateFunction
  \/ evaluateFunctionReturn
  \/ evaluatePostfixReturn
  \/ evaluateExpressionReturn

\* The call evaluateExpression(input) of line 68 has just been made.
Start(inputs) ==
  /\ expr \in inputs
  /\ frames = <<NewFrame(expr)>>
  /\ result = Zero
  /\ err = ""
  /\ pc = "run"

----------------------------------------------------------------------------
(* Inputs.                                                                 *)

\* The usage examples of the README and of the specification.
exPrecedence == <<"3", " ", "+", " ", "5", " ", "*", " ", "(", "2", " ", "-", " ", "4", ")">>

exSine == <<"s", "i", "n", "(", "3", ".", "1", "4", " ", "/", " ", "2", ")">>

exPower == <<"2", "^", "3", "^", "2">>

exDivZero == <<"5", "/", "0">>

exOpenParen == <<"(", "2", "+", "3">>

exCloseParen == <<"2", "+", "3", ")">>

exNested == <<"s", "q", "r", "t", "(", "s", "i", "n", "(", "0", ")", "+", "1", ")">>

exUnaryMinus == <<"-", "5", "+", "3">>

exArgDivZero == <<"s", "q", "r", "t", "(", "5", "/", "0", ")">>

exOperand == <<"2", "*", "s", "i", "n", "(", "0", ")", "+", "1">>

Examples ==
  {exPrecedence, exSine, exPower, exDivZero,
   exOpenParen, exCloseParen, exNested, exUnaryMinus,
   exArgDivZero, exOperand}

\* All concatenations of at most n chunks of an alphabet.
RECURSIVE Words(_, _)
Words(alphabet, n) ==
  IF n = 0 THEN {<<>>}
  ELSE LET W == Words(alphabet, n - 1) IN W \cup {w \o c : w \in W, c \in alphabet}

MaxChunks == 5

LexAlphabet ==
  {<<"1">>, <<".">>, <<"+">>, <<"(">>, <<")">>, <<"x">>, sinName \o <<"(">>}

LexInputs == Words(LexAlphabet, MaxChunks) \cup Examples

InitLex == Start(LexInputs)

SpecLex == InitLex /\ [][Next]_vars

\* The pipeline is straight-line sequential code: a step that can be taken is taken.
FairSpecLex == SpecLex /\ WF_vars(Next)

Spec == SpecLex

MaxDigit == 2

MaxOps == 2

Numbers == {<<DigitChars[d + 1]>> : d \in 0..MaxDigit}

\* number (operator number)*, with at most n operators.
RECURSIVE Arith(_)
Arith(n) ==
  IF n = 0 THEN Numbers
  ELSE LET A == Arith(n - 1)
       IN  A \cup {a \o <<op>> \o d : a \in A, op \in operators, d \in Numbers}

ArithInputs == Arith(MaxOps) \cup Examples

InitArith == Start(ArithInputs)

SpecArith == InitArith /\ [][Next]_vars

\* name(argument)
Call(name, argument) == name \o <<leftParen>> \o argument \o <<rightParen>>

Binary == {a \o <<op>> \o b : a \in Numbers, op \in operators, b \in Numbers}

NumberCalls == {Call(name, d) : name \in FunctionNames, d \in Numbers}

\* A call beside a number, on either side of an operator.
Mixed ==
  {c \o <<op>> \o d : c \in NumberCalls, op \in operators, d \in Numbers}
    \cup {d \o <<op>> \o c : c \in NumberCalls, op \in operators, d \in Numbers}

Arguments ==
  {Call(name, e) : name \in FunctionNames, e \in Numbers \cup Binary} \cup Mixed

FuncInputs ==
  Arguments \cup {Call(name, e) : name \in FunctionNames, e \in Arguments} \cup Examples

InitFunc == Start(FuncInputs)

SpecFunc == InitFunc /\ [][Next]_vars

----------------------------------------------------------------------------
(* Properties.                                                             *)

Done == pc = "done"

\* The frames whose infixToPostfix has ended: with a postfix sequence, or with an error.
Converted(f) == f.phase = "evaluate"

ConvertFailed(f) == f.phase = "convert" /\ f.ret.kind = "err"

Count(seq, x) == Cardinality({p \in 1..Len(seq) : seq[p] = x})

IsOperand(token) == isNumber(token) \/ isFunction(token)

ValidToken(token) ==
  isNumber(token) \/ isFunction(token) \/ isOperator(token)
    \/ token = <<leftParen>> \/ token = <<rightParen>>

\* Some right parenthesis closes nothing, or some left parenthesis is never closed.
Unbalanced(tokens) ==
  \/ \E p \in 1..Len(tokens) :
       Count(SubSeq(tokens, 1, p), <<rightParen>>) > Count(SubSeq(tokens, 1, p), <<leftParen>>)
  \/ Count(tokens, <<leftParen>>) > Count(tokens, <<rightParen>>)

\* C1: evaluate on name(expr), expr a sub-expression in which a function call
\* is combined with a binary operator, returns name applied to the value of
\* expr: evaluate("sqrt(sin(0)+1)") succeeds with 1, and so does every
\* sqrt(sin(0)+d), cos(0)*d, ... with the value standard arithmetic gives.
C1_NestedFunctionValue ==
  Done =>
    /\ expr = exNested => err = "" /\ result = One
    /\ \A d \in Numbers :
         expr = Call(sqrtName, Call(sinName, <<"0">>) \o <<"+">> \o d)
           => err = "" /\ result = Sqrt(ParseFloat(d))

\* C2 as claimed: when the activation evaluating a function argument returns
\* an error of kind K, its caller fails with the same kind K.
C2_ArgumentErrorKept ==
  [][(pc = "run" /\ Len(frames) >= 2 /\ top.ret.kind = "err"
        /\ Len(frames') = Len(frames) - 1)
       => frames'[Len(frames')].ret.err = top.ret.err]_vars

\* C2 as amended: when the activation evaluating a function argument returns
\* an error of any kind, its caller fails, at every nesting depth, and always
\* with the kind InvalidFunctionArgument; so evaluate("sqrt(5/0)") fails with
\* InvalidFunctionArgument.
C2_ArgumentErrorReplaced ==
  /\ [][(pc = "run" /\ Len(frames) >= 2 /\ top.ret.kind = "err"
           /\ Len(frames') = Len(frames) - 1)
          => frames'[Len(frames')].ret
               = [kind |-> "err", val |-> Zero, err |-> errInvalidFunctionArgument]]_vars
  /\ [](Done /\ expr = exArgDivZero => err = errInvalidFunctionArgument)

\* A failure two calls deep has reached the outermost caller.
C2_Witness ==
  /\ Done /\ err = errInvalidFunctionArgument
  /\ expr = Call(sqrtName, Call(sinName, <<"1", "/", "0">>))

\* C3: on a token sequence of valid tokens only, infixToPostfix fails with
\* MismatchedParentheses exactly when the parentheses are unbalanced (a right
\* parenthesis with no open left one, or a left one never closed), and fails
\* in no other way.
C3_MismatchedIffUnbalanced ==
  \A n \in 1..Len(frames) :
    LET f == frames[n] IN
    ((Converted(f) \/ ConvertFailed(f)) /\ \A p \in 1..Len(f.tokens) : ValidToken(f.tokens[p]))
      => /\ ConvertFailed(f) <=> Unbalanced(f.tokens)
         /\ ConvertFailed(f) => f.ret.err = errMismatchedParens

\* Both directions have failed: "(2+3" and "2+3)" ended with MismatchedParentheses.
C3_Witness ==
  /\ Done /\ err = errMismatchedParens
  /\ expr \in {exOpenParen, exCloseParen}

\* C10: when infixToPostfix succeeds its output has no parenthesis token, is
\* a permutation of the input's other tokens and keeps the operands (numbers
\* and function calls) in their input order; "2*sin(0)+1" evaluates to 1.
C10_OperandsKeepOrder ==
  /\ \A n \in 1..Len(frames) :
       LET f == frames[n] IN
       Converted(f) =>
         /\ \A p \in 1..Len(f.postfix) : f.postfix[p] \notin {<<leftParen>>, <<rightParen>>}
         /\ \A p \in 1..Len(f.tokens) :
              f.tokens[p] \notin {<<leftParen>>, <<rightParen>>}
                => Count(f.postfix, f.tokens[p]) = Count(f.tokens, f.tokens[p])
         /\ Len(f.postfix) = Len(f.tokens) - Count(f.tokens, <<leftParen>>)
                                           - Count(f.tokens, <<rightParen>>)
         /\ SelectSeq(f.postfix, IsOperand) = SelectSeq(f.tokens, IsOperand)
  /\ Done /\ expr = exOperand => err = "" /\ result = One

\* The step is one iteration of evaluatePostfix's loop, or its end, in the running frame.
EvaluateStep ==
  Running /\ top.phase = "evaluate" /\ Len(frames') = Len(frames) /\ frames' # frames

After == frames'[Len(frames)]

\* The running frame is about to apply "/" to a zero right operand.
DividesByZero ==
  /\ Running /\ top.phase = "evaluate" /\ top.k <= Len(top.postfix)
  /\ top.postfix[top.k] = <<divideOperator>>
  /\ Len(top.vstack) >= 2
  /\ IsZero(top.vstack[Len(top.vstack)])

\* C4: when evaluatePostfix applies "/" with a zero right operand (the value
\* popped first) it fails at once with DivisionByZero and the value 0,
\* whatever tokens follow; no other step reports DivisionByZero; "5/0" fails
\* with DivisionByZero.
C4_DivisionByZero ==
  /\ [][/\ DividesByZero
             => After.ret = [kind |-> "err", val |-> Zero, err |-> errDivideByZero]
        /\ (/\ Len(frames') >= 1
            /\ frames'[Len(frames')].ret.err = errDivideByZero
            /\ ~(Len(frames') = Len(frames) /\ top.ret.err = errDivideByZero))
             => DividesByZero /\ Len(frames') = Len(frames)]_vars
  /\ [](Done /\ expr = exDivZero => err = errDivideByZero /\ result = Zero)
  /\ [](Done /\ err = errDivideByZero => Count(expr, divideOperator) >= 1)

\* A division by zero was met with tokens still to come ("1/0+1").
C4_Witness ==
  /\ Running /\ top.ret.kind = "none" /\ DividesByZero
  /\ top.k < Len(top.postfix)

\* Reference evaluation of number (operator number)*: the operands of the
\* last + or - are evaluated first; failing one, those of the last * or /;
\* failing one, those of the first ^.
LastOf(s, set) ==
  IF \E p \in 1..Len(s) : s[p] \in set
  THEN CHOOSE p \in 1..Len(s) : s[p] \in set /\ \A q \in (p + 1)..Len(s) : s[q] \notin set
  ELSE 0

FirstOf(s, set) ==
  IF \E p \in 1..Len(s) : s[p] \in set
  THEN CHOOSE p \in 1..Len(s) : s[p] \in set /\ \A q \in 1..(p - 1) : s[q] \notin set
  ELSE 0

Combine(op, l, r) ==
  IF l.err # "" THEN l
  ELSE IF r.err # "" THEN r
  ELSE IF op = addOperator THEN [val |-> add(l.val, r.val), err |-> ""]
  ELSE IF op = subtractOperator THEN [val |-> subtract(l.val, r.val), err |-> ""]
  ELSE IF op = multiplyOperator THEN [val |-> multiply(l.val, r.val), err |-> ""]
  ELSE IF op = divideOperator
  THEN IF IsZero(r.val) THEN [val |-> Zero, err |-> errDivideByZero]
       ELSE [val |-> Quotient(l.val, r.val), err |-> ""]
  ELSE [val |-> power(l.val, r.val), err |-> ""]

SplitAt(s) ==
  IF LastOf(s, {addOperator, subtractOperator}) # 0
  THEN LastOf(s, {addOperator, subtractOperator})
  ELSE IF LastOf(s, {multiplyOperator, divideOperator}) # 0
  THEN LastOf(s, {multiplyOperator, divideOperator})
  ELSE FirstOf(s, {powerOperator})

RECURSIVE Reference(_)
Reference(s) ==
  IF SplitAt(s) = 0 THEN [val |-> ParseFloat(s), err |-> ""]
  ELSE Combine(s[SplitAt(s)],
               Reference(SubSeq(s, 1, SplitAt(s) - 1)),
               Reference(SubSeq(s, SplitAt(s) + 1, Len(s))))

\* number (operator number)* with the operators of ops.
WellFormed(s, ops) ==
  /\ Len(s) > 0
  /\ \A p \in 1..Len(s) : IsDigit(s[p]) \/ s[p] \in ops
  /\ IsDigit(s[1]) /\ IsDigit(s[Len(s)])
  /\ \A p \in 1..(Len(s) - 1) : IsDigit(s[p]) \/ IsDigit(s[p + 1])

Outcome == [val |-> result, err |-> err]

\* C5: on number (op number)* with op among + - * /, evaluate returns what
\* the reference evaluation with standard precedence returns (* and / before
\* + and -, equal precedence left to right, the second-popped value on the
\* left); and "3 + 5 * (2 - 4)" evaluates to -7.
C5_MatchesReference ==
  /\ (Done /\ WellFormed(expr, operators \ {powerOperator})) => Outcome = Reference(expr)
  /\ (Done /\ expr = exPrecedence) => Outcome = [val |-> Rat(-7, 1), err |-> ""]

\* a - b * c has been evaluated to a value.
C5_Witness ==
  /\ Done /\ err = "" /\ Len(expr) = 5
  /\ WellFormed(expr, operators \ {powerOperator})
  /\ expr[2] = subtractOperator /\ expr[4] = multiplyOperator
  /\ result # Zero

Num(d) == [val |-> ParseFloat(d), err |-> ""]

\* C6: a^b^c evaluates to a^(b^c); ^ binds tighter than + - * / on either
\* side; "2^3^2" evaluates to 512.
C6_PowerRightAssociative ==
  Done =>
    /\ \A a, b, c \in Numbers :
         /\ expr = a \o <<powerOperator>> \o b \o <<powerOperator>> \o c
              => Outcome = Combine(powerOperator, Num(a), Combine(powerOperator, Num(b), Num(c)))
         /\ \A op \in operators \ {powerOperator} :
              /\ expr = a \o <<op>> \o b \o <<powerOperator>> \o c
                   => Outcome = Combine(op, Num(a), Combine(powerOperator, Num(b), Num(c)))
              /\ expr = a \o <<powerOperator>> \o b \o <<op>> \o c
                   => Outcome = Combine(op, Combine(powerOperator, Num(a), Num(b)), Num(c))
    /\ expr = exPower => Outcome = [val |-> Rat(512, 1), err |-> ""]

\* "2^3^2" has been evaluated, and so has a chain where the grouping matters (2^2^0 = 2).
C6_Witness ==
  /\ Done /\ err = ""
  /\ \/ expr = exPower /\ result = Rat(512, 1)
     \/ expr = <<"2", "^", "2", "^", "0">> /\ result = Rat(2, 1)

\* No activation has returned a run-time panic.
NoPanic ==
  /\ err # Panic
  /\ \A n \in 1..Len(frames) : frames[n].ret.err # Panic

Stage(f) == IF f.phase = "tokenize" THEN 1 ELSE IF f.phase = "convert" THEN 2 ELSE 3

\* What a step of the running frame does: it enters a recursive call on a
\* string shorter than the function token, or returns, or moves to the next
\* stage, or advances the scan index i (tokenize) or the token index k
\* (infixToPostfix, evaluatePostfix) without touching the rest.
Advances ==
  Running =>
    IF Len(frames') = Len(frames) + 1
    THEN /\ Len(frames'[Len(frames')].input) < Len(top.postfix[top.k])
         /\ SubSeq(frames', 1, Len(frames)) = frames
    ELSE /\ Len(frames') = Len(frames)
         /\ \/ After.ret.kind # "none"
            \/ Stage(After) > Stage(top)
            \/ /\ top.phase = "tokenize" /\ After.phase = "tokenize"
               /\ After.i > top.i /\ After.i <= Len(top.input) + 1
               /\ After.input = top.input
            \/ /\ top.phase # "tokenize" /\ After.phase = top.phase
               /\ After.k = top.k + 1
               /\ After.tokens = top.tokens

\* C7: on every input evaluate terminates, with a number or one of the error
\* kinds and never a panic; every step advances an index, returns, or
\* recurses on a string strictly shorter than the function token.
C7_Terminates ==
  /\ <>Done
  /\ []NoPanic
  /\ [][Advances]_vars
  /\ [](Done => frames = <<>>)

\* A call nested in a call has been evaluated to a value.
C7_Witness ==
  /\ Done /\ err = ""
  /\ expr = Call(sinName, Call(sinName, <<"1">>))

\* C8: evaluatePostfix fails with InsufficientOperands exactly when it meets
\* an operator with fewer than two values on the stack, and then pops
\* nothing; at the end of the tokens it returns the single value of the
\* stack, and fails with MalformedExpression for any other stack size; the
\* postfix of "-5+3" is 5 - 3 + and fails with InsufficientOperands.
C8_InsufficientOperands ==
  /\ [][EvaluateStep =>
          IF top.k <= Len(top.postfix)
          THEN IF isOperator(top.postfix[top.k])
               THEN /\ Len(top.vstack) < 2 <=> After.ret.err = errInsufficientValues
                    /\ Len(top.vstack) < 2 => After.vstack = top.vstack
                    /\ After.ret.kind = "none" => Len(After.vstack) = Len(top.vstack) - 1
               ELSE After.ret.err # errInsufficientValues
          ELSE IF Len(top.vstack) = 1
               THEN After.ret = [kind |-> "ok", val |-> top.vstack[1], err |-> ""]
               ELSE After.ret = [kind |-> "err", val |-> Zero, err |-> errMalformedExpression]]_vars
  /\ [](\A n \in 1..Len(frames) :
          (Converted(frames[n]) /\ frames[n].input = exUnaryMinus)
            => frames[n].postfix = <<<<"5">>, <<"-">>, <<"3">>, <<"+">>>>)
  /\ [](Done /\ expr = exUnaryMinus => err = errInsufficientValues)

\* "-5+3" has failed on its first operator, which found one value on the stack.
C8_Witness == Done /\ expr = exUnaryMinus /\ err = errInsufficientValues

\* input has a function name followed by "(" at position i.
StartsCall(input, i) ==
  \E name \in FunctionNames :
    /\ i + Len(name) <= Len(input)
    /\ SubSeq(input, i, i + Len(name)) = name \o <<leftParen>>

OpenAt(input, i) == CHOOSE p \in i..Len(input) : input[p] = leftParen /\ \A q \in i..(p - 1) : input[q] # leftParen

\* The parenthesis depth after position j of a call opened at position open.
Depth(input, open, j) ==
  Cardinality({p \in open..j : input[p] = leftParen})
    - Cardinality({p \in open..j : input[p] = rightParen})

\* j is the first position at which the depth of the call opened at open is zero again.
ClosesAt(input, open, j) ==
  /\ j \in (open + 1)..Len(input)
  /\ Depth(input, open, j) = 0
  /\ \A q \in open..(j - 1) : Depth(input, open, q) > 0

Flushed(f) == IF f.number # <<>> THEN Append(f.tokens, f.number) ELSE f.tokens

\* C9: at a function name followed by "(" the tokenizer emits one token, from
\* the name to the first ")" where the depth is zero again, and resumes after
\* it; it fails with UnmatchedFunctionParens exactly when there is no such
\* ")"; at any other character that is no digit, '.', operator or
\* parenthesis it fails with InvalidCharacter.
C9_FunctionToken ==
  [][(Running /\ top.phase = "tokenize" /\ top.i <= Len(top.input) /\ frames' # frames) =>
       LET input == top.input
           i == top.i
       IN  /\ Len(frames') = Len(frames)
           /\ IF IsDigit(input[i]) \/ input[i] = "." \/ isOperatorOrParen(<<input[i]>>)
              THEN After.ret.kind = "none"
              ELSE IF StartsCall(input, i)
              THEN IF \E j \in 1..Len(input) : ClosesAt(input, OpenAt(input, i), j)
                   THEN LET j == CHOOSE j \in 1..Len(input) : ClosesAt(input, OpenAt(input, i), j)
                        IN  /\ After.ret.kind = "none"
                            /\ After.tokens = Append(Flushed(top), SubSeq(input, i, j))
                            /\ After.i = j + 1
                   ELSE After.ret.err = errUnmatchedFunctionParens
              ELSE After.ret.err = errInvalidCharacter]_vars

\* A call with a nested parenthesis pair has become one token, after a number was flushed.
C9_Witness ==
  /\ Len(frames) = 1 /\ top.ret.kind = "none"
  /\ expr = <<"1">> \o Call(sinName, <<"(", ")">>)
  /\ top.tokens = <<<<"1">>, Call(sinName, <<"(", ")">>)>>
  /\ top.i = Len(expr) + 1

====
